---------------------------- MODULE Spec2Model ----------------------------
(***************************************************************************)
(* Model of the fuzzy livability engine: the membership model              *)
(* (src/src/membership_functions.py), the rule base (src/src/rule_base.py) *)
(* and the Mamdani inference engine (src/src/fuzzy_system.py).             *)
(*                                                                         *)
(* Numbers.  Crisp values are integers in a per-variable unit:             *)
(*   noise_lden, noise_lnight : 0.1 dBA      daylight      : 1 lux         *)
(*   view_sky, view_greenery  : 0.01 sr      location_poi  : 0.1 POI       *)
(*   livability               : 1 point                                    *)
(* Degrees of membership, weights' products and activation levels are      *)
(* exact rationals written as integers in units of 1/ONE.  ONE is divisible*)
(* by every slope denominator of the sampled membership functions, and the *)
(* feature values the model scores are chosen so that every division is    *)
(* exact; the model leaves out only the rounding of IEEE doubles.  A score *)
(* is a rational [num, den].                                               *)
(*                                                                         *)
(* Library calls (scikit-fuzzy 0.4 and later, numpy) are modelled by what  *)
(* they compute: trimf, trapmf, interp_membership (numpy.interp with       *)
(* left = right = 0.0), defuzz(..., 'centroid').                           *)
(***************************************************************************)
EXTENDS Integers, Sequences, FiniteSets, TLC

\* call: the operation in progress and its arguments; ret: what it returns.
\* seen: a result a caller has kept from an earlier compute_single_dwelling
\* call; the engine never reads it.
VARIABLES call, ret, seen

vars == <<call, ret, seen>>

\* The unit of degrees: degree 1.0 is ONE.
ONE == 840 * 20

\* float('nan') as a value and as a degree, and a value that is no number
\* (a string such as 'n/a').  Both lie outside every number the model uses.
NaN == 0 - 3000000
Text == 0 - 2000000

\* a < b on floats: False when either side is NaN.
Less(a, b) == a # NaN /\ b # NaN /\ a < b

---------------------------------------------------------------------------
(* Membership model                                                        *)

InputVars ==
  {"noise_lden", "noise_lnight", "daylight", "view_sky", "view_greenery",
   "location_poi"}

\* numpy.arange(start, stop, step) as a 0-indexed array: start, start+step,
\* ... below stop.
arange(start, stop, step) ==
  [i \in 0 .. ((stop - 1 - start) \div step) |-> start + i * step]

\* The number of elements of a 0-indexed array.
Size(array) == Cardinality(DOMAIN array)

universes ==
  [noise_lden    |-> arange(300, 850, 5),
   noise_lnight  |-> arange(250, 750, 5),
   daylight      |-> arange(0, 1000, 5),
   view_sky      |-> arange(0, 400, 5),
   view_greenery |-> arange(0, 200, 2),
   location_poi  |-> arange(0, 1000, 10),
   livability    |-> arange(0, 101, 1)]

\* The breakpoints handed to fuzz.trapmf (four) and fuzz.trimf (three).
breakpoints ==
  [noise_lden |->
     [quiet    |-> <<300, 300, 480, 550>>,
      moderate |-> <<500, 580, 680>>,
      noisy    |-> <<630, 700, 850, 850>>],
   noise_lnight |->
     [quiet    |-> <<250, 250, 400, 470>>,
      moderate |-> <<420, 500, 580>>,
      noisy    |-> <<530, 600, 750, 750>>],
   daylight |->
     [low    |-> <<0, 0, 50, 120>>,
      medium |-> <<80, 200, 350>>,
      high   |-> <<280, 400, 1000, 1000>>],
   view_sky |->
     [poor     |-> <<0, 0, 50, 120>>,
      moderate |-> <<80, 150, 230>>,
      good     |-> <<200, 280, 400, 400>>],
   view_greenery |->
     [poor     |-> <<0, 0, 10, 40>>,
      moderate |-> <<20, 60, 100>>,
      good     |-> <<70, 120, 200, 200>>],
   location_poi |->
     [low    |-> <<0, 0, 50, 150>>,
      medium |-> <<100, 250, 400>>,
      high   |-> <<350, 500, 1000, 1000>>],
   livability |->
     [poor      |-> <<0, 0, 15, 35>>,
      fair      |-> <<25, 40, 55>>,
      good      |-> <<45, 60, 75>>,
      excellent |-> <<65, 80, 100, 100>>]]

\* trimf without the test that x lies right of a.
trimf_no_left_foot(x, a, b, c) ==
  IF x = b THEN ONE
  ELSE IF x < b THEN (ONE * (x - a)) \div (b - a)
  ELSE IF b < x /\ x < c THEN (ONE * (c - x)) \div (c - b)
  ELSE 0

\* skfuzzy.trimf at one point x.
trimf(x, a, b, c) ==
  IF x = b THEN ONE
  ELSE IF a < x /\ x < b THEN (ONE * (x - a)) \div (b - a)
  ELSE IF b < x /\ x < c THEN (ONE * (c - x)) \div (c - b)
  ELSE 0

\* A crisp set: 1 on the plateau, 0 on the shoulders.
trapmf_plateau_only(x, a, b, c, d) == IF b <= x /\ x <= c THEN ONE ELSE 0

\* skfuzzy.trapmf at one point x: ones, the two shoulders through trimf,
\* then zero below a and above d (the later assignments win).
trapmf(x, a, b, c, d) ==
  IF x < a \/ x > d THEN 0
  ELSE IF x >= c THEN trimf(x, c, c, d)
  ELSE IF x <= b THEN trimf(x, a, b, b)
  ELSE ONE

\* fuzz.trimf / fuzz.trapmf over a universe: the array of sampled degrees.
SampledMf(universe, p) ==
  [i \in DOMAIN universe |->
     IF Len(p) = 3 THEN trimf(universe[i], p[1], p[2], p[3])
     ELSE trapmf(universe[i], p[1], p[2], p[3], p[4])]

\* The arrays built once at construction, per variable and term.
membership_functions ==
  [variable \in DOMAIN breakpoints |->
     [term \in DOMAIN breakpoints[variable] |->
        SampledMf(universes[variable], breakpoints[variable][term])]]

\* A lookup of the sample at or below xx instead of an interpolation.
interp_membership_nearest(x, xmf, xx) ==
  LET last == Size(x) - 1
      i    == (xx - x[0]) \div (x[1] - x[0])
  IN  IF xx < x[0] \/ xx > x[last] THEN 0 ELSE xmf[i]

\* skfuzzy.interp_membership(x, xmf, xx): numpy.interp over the samples with
\* left = right = 0.0, so 0 outside [x[0], x[-1]] and linear between two
\* neighbouring samples; numpy.interp of NaN is NaN.
interp_membership(x, xmf, xx) ==
  LET last == Size(x) - 1
      i    == (xx - x[0]) \div (x[1] - x[0])
  IN  IF xx = NaN THEN NaN
      ELSE IF xx < x[0] \/ xx > x[last] THEN 0
      ELSE IF xx = x[i] THEN xmf[i]
      ELSE xmf[i] + ((xmf[i + 1] - xmf[i]) * (xx - x[i])) \div (x[i + 1] - x[i])

\* Python's None as a returned value: a value without entries.
None == <<>>

get_universe(variable) ==
  IF variable \in DOMAIN universes THEN universes[variable] ELSE None

get_membership_function(variable, term) ==
  IF variable \in DOMAIN membership_functions
  THEN IF term \in DOMAIN membership_functions[variable]
       THEN membership_functions[variable][term] ELSE None
  ELSE None

\* A fuzzification that returns only the terms the value belongs to.
fuzzify_value_active_terms(variable, value) ==
  IF variable \notin DOMAIN membership_functions THEN <<>>
  ELSE [term \in {t \in DOMAIN membership_functions[variable] :
                    interp_membership(universes[variable],
                                      membership_functions[variable][t],
                                      value) > 0} |->
          interp_membership(universes[variable],
                            membership_functions[variable][term], value)]

fuzzify_value(variable, value) ==
  IF variable \notin DOMAIN membership_functions THEN <<>>
  ELSE [term \in DOMAIN membership_functions[variable] |->
          interp_membership(universes[variable],
                            membership_functions[variable][term], value)]

---------------------------------------------------------------------------
(* Rule base                                                               *)

\* The 15 rules in definition order.  antecedents keeps the order of the
\* dict literal; weight is in hundredths (1.0 is 100).
rules ==
  << [id |-> 1,
      antecedents |-> << <<"noise_lden", "quiet">>, <<"daylight", "high">>,
                         <<"view_sky", "good">> >>,
      consequent |-> "excellent", weight |-> 100],
     [id |-> 2,
      antecedents |-> << <<"noise_lden", "quiet">>, <<"view_greenery", "good">>,
                         <<"location_poi", "high">> >>,
      consequent |-> "excellent", weight |-> 100],
     [id |-> 3,
      antecedents |-> << <<"noise_lden", "moderate">>, <<"daylight", "high">>,
                         <<"view_sky", "good">> >>,
      consequent |-> "good", weight |-> 100],
     [id |-> 4,
      antecedents |-> << <<"noise_lden", "quiet">>, <<"daylight", "medium">>,
                         <<"view_sky", "moderate">> >>,
      consequent |-> "good", weight |-> 100],
     [id |-> 5,
      antecedents |-> << <<"noise_lden", "moderate">>, <<"view_sky", "good">>,
                         <<"location_poi", "high">> >>,
      consequent |-> "good", weight |-> 90],
     [id |-> 6,
      antecedents |-> << <<"noise_lden", "moderate">>, <<"daylight", "medium">>,
                         <<"view_sky", "moderate">> >>,
      consequent |-> "fair", weight |-> 100],
     [id |-> 7,
      antecedents |-> << <<"noise_lden", "quiet">>, <<"daylight", "low">>,
                         <<"view_sky", "poor">> >>,
      consequent |-> "fair", weight |-> 100],
     [id |-> 8,
      antecedents |-> << <<"noise_lden", "moderate">>, <<"location_poi", "high">>,
                         <<"view_sky", "moderate">> >>,
      consequent |-> "fair", weight |-> 80],
     [id |-> 9,
      antecedents |-> << <<"noise_lden", "noisy">> >>,
      consequent |-> "poor", weight |-> 100],
     [id |-> 10,
      antecedents |-> << <<"daylight", "low">>, <<"view_sky", "poor">>,
                         <<"view_greenery", "poor">> >>,
      consequent |-> "poor", weight |-> 100],
     [id |-> 11,
      antecedents |-> << <<"noise_lden", "moderate">>, <<"daylight", "low">>,
                         <<"view_sky", "poor">> >>,
      consequent |-> "poor", weight |-> 90],
     [id |-> 12,
      antecedents |-> << <<"location_poi", "low">>, <<"daylight", "low">>,
                         <<"noise_lden", "moderate">> >>,
      consequent |-> "poor", weight |-> 70],
     [id |-> 13,
      antecedents |-> << <<"noise_lden", "moderate">>, <<"daylight", "high">>,
                         <<"location_poi", "high">> >>,
      consequent |-> "good", weight |-> 85],
     [id |-> 14,
      antecedents |-> << <<"noise_lnight", "quiet">>, <<"view_greenery", "good">>,
                         <<"daylight", "medium">> >>,
      consequent |-> "good", weight |-> 90],
     [id |-> 15,
      antecedents |-> << <<"noise_lnight", "noisy">> >>,
      consequent |-> "poor", weight |-> 95] >>

get_rules == rules

RECURSIVE first_with_id(_, _)
\* Lines 230-233, from rule i on: the first rule with the id, or None.
first_with_id(i, rule_id) ==
  IF i > Len(rules) THEN None
  ELSE IF rules[i].id = rule_id THEN rules[i]
  ELSE first_with_id(i + 1, rule_id)

\* Lines 216-233.
get_rule_by_id(rule_id) == first_with_id(1, rule_id)

RECURSIVE first_run_with(_, _, _)
\* The rules with the consequent that follow one another in the list, from
\* the first such rule on.
first_run_with(i, consequent_term, matching_rules) ==
  IF i > Len(rules) THEN matching_rules
  ELSE IF rules[i].consequent = consequent_term
  THEN first_run_with(i + 1, consequent_term,
                      Append(matching_rules, rules[i]))
  ELSE IF matching_rules = <<>>
  THEN first_run_with(i + 1, consequent_term, matching_rules)
  ELSE matching_rules

\* A grouping that reads only the first block of rules of a consequent.
get_rules_by_consequent_first_block(consequent_term) ==
  first_run_with(1, consequent_term, <<>>)

RECURSIVE matching_from(_, _, _)
\* Lines 249-253, from rule i on.
matching_from(i, consequent_term, matching_rules) ==
  IF i > Len(rules) THEN matching_rules
  ELSE matching_from(i + 1, consequent_term,
         IF rules[i].consequent = consequent_term
         THEN Append(matching_rules, rules[i])
         ELSE matching_rules)

\* Lines 235-253.
get_rules_by_consequent(consequent_term) ==
  matching_from(1, consequent_term, <<>>)

OutputTerms == {"poor", "fair", "good", "excellent"}

---------------------------------------------------------------------------
(* Inference engine                                                        *)

RECURSIVE min_from(_, _)
\* Python's min, from the smallest so far m over the rest of the list: an
\* item replaces m only if item < m.
min_from(m, rest) ==
  IF rest = <<>> THEN m
  ELSE min_from(IF Less(rest[1], m) THEN rest[1] ELSE m, Tail(rest))

\* Python's min over a non-empty list.
SeqMin(s) == min_from(s[1], Tail(s))

\* Fuzzification that does not skip the keys the membership model lacks.
fuzzify_inputs_unfiltered(features) ==
  [var \in DOMAIN features |-> fuzzify_value(var, features[var])]

\* Lines 43-46: fuzzify every feature the membership model knows.
fuzzify_inputs(features) ==
  [var \in {k \in DOMAIN features : k \in DOMAIN membership_functions} |->
     fuzzify_value(var, features[var])]

RECURSIVE activation_degrees(_, _)
\* Lines 59-63: the degrees of the antecedents found in the fuzzification.
activation_degrees(antecedents, fuzzified) ==
  IF antecedents = <<>> THEN <<>>
  ELSE LET var  == antecedents[1][1]
           term == antecedents[1][2]
           rest == activation_degrees(Tail(antecedents), fuzzified)
       IN  IF var \in DOMAIN fuzzified /\ term \in DOMAIN fuzzified[var]
           THEN <<fuzzified[var][term]>> \o rest
           ELSE rest

RECURSIVE SeqProduct(_)
SeqProduct(s) ==
  IF Len(s) = 1 THEN s[1] ELSE (s[1] * SeqProduct(Tail(s))) \div ONE

rule_activation_product(degrees, weight) ==
  (SeqProduct(degrees) * weight) \div 100

\* Line 67: min(activation_degrees) * rule['weight'].
rule_activation(degrees, weight) ==
  IF SeqMin(degrees) = NaN THEN NaN ELSE (SeqMin(degrees) * weight) \div 100

aggregate_sum(current, activation) == current + activation

\* An aggregation that keeps the strength of the rule evaluated last.
aggregate_last(current, activation) == activation

\* Lines 71-74: max(output_aggregation[consequent_term], activation).
aggregate(current, activation) ==
  IF Less(current, activation) THEN activation ELSE current

\* A threshold that 0.01 itself passes.
is_significant_from_threshold(activation) ==
  activation # NaN /\ activation * 100 >= ONE

\* Line 76: activation > 0.01.
is_significant(activation) == activation # NaN /\ activation * 100 > ONE

\* A loop body that puts the newest activated rule at the head of the list.
apply_rule_newest_first(rule, fuzzified, acc) ==
  LET degrees == activation_degrees(rule.antecedents, fuzzified)
  IN  IF degrees = <<>> THEN acc
      ELSE
        LET activation == rule_activation(degrees, rule.weight)
            term       == rule.consequent
            agg        == [acc.output_aggregation EXCEPT
                             ![term] = aggregate(@, activation)]
            act        == IF is_significant(activation)
                          THEN <<[rule_id |-> rule.id,
                                  activation |-> activation]>>
                                 \o acc.activated_rules
                          ELSE acc.activated_rules
        IN  [output_aggregation |-> agg, activated_rules |-> act]

\* Lines 58-80: one pass of the loop body, for one rule; acc holds
\* output_aggregation and activated_rules.
apply_rule(rule, fuzzified, acc) ==
  LET degrees == activation_degrees(rule.antecedents, fuzzified)
  IN  IF degrees = <<>> THEN acc
      ELSE
        LET activation == rule_activation(degrees, rule.weight)
            term       == rule.consequent
            agg        == [acc.output_aggregation EXCEPT
                             ![term] = aggregate(@, activation)]
            act        == IF is_significant(activation)
                          THEN Append(acc.activated_rules,
                                      [rule_id |-> rule.id,
                                       activation |-> activation])
                          ELSE acc.activated_rules
        IN  [output_aggregation |-> agg, activated_rules |-> act]

RECURSIVE apply_rules(_, _, _)
\* Lines 57-81: the loop over the rules from rule i on.
apply_rules(i, fuzzified, acc) ==
  IF i > Len(get_rules) THEN acc
  ELSE apply_rules(i + 1, fuzzified, apply_rule(get_rules[i], fuzzified, acc))

Min2(a, b) == IF a <= b THEN a ELSE b
Max2(a, b) == IF a >= b THEN a ELSE b

RECURSIVE clip_and_join(_, _, _)
\* Lines 116-121: over the terms in dict order, skip a term at level 0,
\* clip its membership function at the level (fmin) and join (fmax).
clip_and_join(terms, output_memberships, aggregated) ==
  IF terms = <<>> THEN aggregated
  ELSE
    LET term       == Head(terms)
        activation == output_memberships[term]
        mf         == get_membership_function("livability", term)
    IN  clip_and_join(Tail(terms), output_memberships,
          IF activation > 0
          THEN [i \in DOMAIN aggregated |->
                  Max2(aggregated[i], Min2(activation, mf[i]))]
          ELSE aggregated)

\* skfuzzy centroid, one segment (x1, y1)-(x2, y2): 6 * moment * area.
SegmentMoment6(x1, x2, y1, y2) ==
  IF (y1 = 0 /\ y2 = 0) \/ x1 = x2 THEN 0
  ELSE IF y1 = y2 THEN 3 * (x1 + x2) * (x2 - x1) * y1
  ELSE IF y1 = 0 THEN (2 * (x2 - x1) + 3 * x1) * (x2 - x1) * y2
  ELSE IF y2 = 0 THEN ((x2 - x1) + 3 * x1) * (x2 - x1) * y1
  ELSE ((x2 - x1) * (2 * y2 + y1) + 3 * x1 * (y1 + y2)) * (x2 - x1)

\* skfuzzy centroid, one segment: 2 * area.
SegmentArea2(x1, x2, y1, y2) ==
  IF (y1 = 0 /\ y2 = 0) \/ x1 = x2 THEN 0
  ELSE IF y1 = y2 THEN 2 * (x2 - x1) * y1
  ELSE (x2 - x1) * (y1 + y2)

RECURSIVE SumOver(_, _, _)
\* The sum of array[lo .. hi].
SumOver(array, lo, hi) ==
  IF lo > hi THEN 0
  ELSE IF lo = hi THEN array[lo]
  ELSE SumOver(array, lo, (lo + hi) \div 2)
         + SumOver(array, (lo + hi) \div 2 + 1, hi)

\* The centroid that returns the summed moments, not their mean.
centroid_not_normalised(x, mfx) ==
  LET n  == Size(x) - 1
      m6 == [i \in 1..n |-> SegmentMoment6(x[i - 1], x[i], mfx[i - 1], mfx[i])]
  IN  [num |-> SumOver(m6, 1, n), den |-> 6 * ONE]

\* The mean of the sample positions weighted by the sampled values.
centroid_of_samples(x, mfx) ==
  LET n  == Size(x) - 1
      xy == [i \in 0..n |-> x[i] * mfx[i]]
  IN  [num |-> SumOver(xy, 0, n), den |-> SumOver(mfx, 0, n)]

\* fuzz.defuzz(x, mfx, 'centroid'): sum(moment * area) / sum(area) over the
\* segments between neighbouring samples.
centroid(x, mfx) ==
  LET n  == Size(x) - 1
      m6 == [i \in 1..n |-> SegmentMoment6(x[i - 1], x[i], mfx[i - 1], mfx[i])]
      a2 == [i \in 1..n |-> SegmentArea2(x[i - 1], x[i], mfx[i - 1], mfx[i])]
  IN  [num |-> SumOver(m6, 1, n), den |-> 3 * SumOver(a2, 1, n)]

\* The order of the keys of output_aggregation (lines 50-55).
OutputTermOrder == <<"poor", "fair", "good", "excellent">>

\* Defuzzification without the default for an all-zero envelope.
defuzzify_centroid_no_default(output_memberships) ==
  LET universe   == get_universe("livability")
      aggregated == clip_and_join(OutputTermOrder, output_memberships,
                                  [i \in DOMAIN universe |-> 0])
  IN  centroid(universe, aggregated)

\* Defuzzification that takes an envelope whose samples sum to 1 or less
\* for an empty one.
defuzzify_centroid_default_below_one(output_memberships) ==
  LET universe   == get_universe("livability")
      aggregated == clip_and_join(OutputTermOrder, output_memberships,
                                  [i \in DOMAIN universe |-> 0])
  IN  IF SumOver(aggregated, 0, Size(universe) - 1) > ONE
      THEN centroid(universe, aggregated)
      ELSE [num |-> 50, den |-> 1]

\* Lines 111-130.
defuzzify_centroid(output_memberships) ==
  LET universe   == get_universe("livability")
      aggregated == clip_and_join(OutputTermOrder, output_memberships,
                                  [i \in DOMAIN universe |-> 0])
  IN  IF SumOver(aggregated, 0, Size(universe) - 1) > 0
      THEN centroid(universe, aggregated)
      ELSE [num |-> 50, den |-> 1]

\* Labelling with the band boundaries in the lower band.
get_linguistic_label_strict(fli_score) ==
  IF fli_score.num > 65 * fli_score.den THEN "excellent"
  ELSE IF fli_score.num > 45 * fli_score.den THEN "good"
  ELSE IF fli_score.num > 25 * fli_score.den THEN "fair"
  ELSE "poor"

\* Lines 146-153, on a rational score.
get_linguistic_label(fli_score) ==
  IF fli_score.num >= 65 * fli_score.den THEN "excellent"
  ELSE IF fli_score.num >= 45 * fli_score.den THEN "good"
  ELSE IF fli_score.num >= 25 * fli_score.den THEN "fair"
  ELSE "poor"

\* A scoring that warms up: once a caller has kept a result, the rule levels
\* of the next calls start from the kept ones.
compute_single_dwelling_warm(features) ==
  LET fuzzified == fuzzify_inputs(features)
      acc == apply_rules(1, fuzzified,
               [output_aggregation |->
                  IF seen.kept
                  THEN [t \in OutputTerms |->
                          Max2(seen.result.output_memberships[t], ONE \div 2)]
                  ELSE [t \in OutputTerms |-> 0],
                activated_rules |-> <<>>])
      fli_score == defuzzify_centroid(acc.output_aggregation)
  IN  [fli_score |-> fli_score,
       linguistic_label |-> get_linguistic_label(fli_score),
       output_memberships |-> acc.output_aggregation,
       activated_rules |-> acc.activated_rules,
       input_fuzzification |-> fuzzified]

\* Lines 42-95.  numpy.interp (line 182) raises TypeError for a value that is
\* no number; nothing in the call catches it.
compute_single_dwelling(features) ==
  LET fuzzified == fuzzify_inputs(features)
      acc == apply_rules(1, fuzzified,
               [output_aggregation |-> [t \in OutputTerms |-> 0],
                activated_rules |-> <<>>])
      fli_score == defuzzify_centroid(acc.output_aggregation)
  IN  IF \E var \in DOMAIN features \cap DOMAIN membership_functions :
            features[var] = Text
      THEN [raised |-> "TypeError"]
      ELSE [fli_score |-> fli_score,
            linguistic_label |-> get_linguistic_label(fli_score),
            output_memberships |-> acc.output_aggregation,
            activated_rules |-> acc.activated_rules,
            input_fuzzification |-> fuzzified]

RECURSIVE apply_rules_in_order(_, _, _, _)
\* Lines 57-81 when get_rules() yields the rules in another order: order[i]
\* is the place, in the list as defined, of the rule evaluated i-th.
apply_rules_in_order(order, i, fuzzified, acc) ==
  IF i > Len(order) THEN acc
  ELSE apply_rules_in_order(order, i + 1, fuzzified,
                            apply_rule(get_rules[order[i]], fuzzified, acc))

\* Lines 42-95 over the rules in another order.
compute_single_dwelling_in_order(features, order) ==
  LET fuzzified == fuzzify_inputs(features)
      acc == apply_rules_in_order(order, 1, fuzzified,
               [output_aggregation |-> [t \in OutputTerms |-> 0],
                activated_rules |-> <<>>])
      fli_score == defuzzify_centroid(acc.output_aggregation)
  IN  IF \E var \in DOMAIN features \cap DOMAIN membership_functions :
            features[var] = Text
      THEN [raised |-> "TypeError"]
      ELSE [fli_score |-> fli_score,
            linguistic_label |-> get_linguistic_label(fli_score),
            output_memberships |-> acc.output_aggregation,
            activated_rules |-> acc.activated_rules,
            input_fuzzification |-> fuzzified]

\* compute_single_dwelling statement by statement.  The local variables of
\* one call in progress are a record: pc (the statement reached), features,
\* todo (the keys `for var, value in features.items()` has yet to visit),
\* fuzzified, i (the rule the loop over the rules has reached),
\* output_aggregation, activated_rules, fli_score, linguistic_label.  A
\* local that is not yet assigned holds a placeholder.

\* d[key] = value on a dict.
dict_set(features, key, value) ==
  [k \in DOMAIN features \cup {key} |->
     IF k = key THEN value ELSE features[k]]

\* The order in which features.items() yields the keys the model scores.
KeyOrder ==
  <<"noise_lden", "noise_lnight", "daylight", "view_sky", "view_greenery",
    "location_poi", "livability", "building_id">>

\* Lines 42-55: the call is entered and its locals are allocated.
enter_call(features) ==
  [pc |-> "fuzzify",
   features |-> features,
   todo |-> SelectSeq(KeyOrder, LAMBDA k : k \in DOMAIN features),
   fuzzified |-> <<>>,
   i |-> 1,
   output_aggregation |-> [t \in OutputTerms |-> 0],
   activated_rules |-> <<>>,
   fli_score |-> [num |-> 0, den |-> 1],
   linguistic_label |-> ""]

\* Rule levels read from the call that entered first.
first_call_levels(locals, t) == locals[1].output_aggregation

\* Lines 50-55, 71: output_aggregation is a local of the call.
own_levels(locals, t) == locals[t].output_aggregation

\* The next statement of call t, given the locals of all calls in progress:
\* it reads and writes the locals of call t only.
\*   fuzzify   lines 44-46, one key of the loop
\*   rules     lines 57-80, one rule of the loop
\*   defuzzify line 83
\*   label     line 86
\*   return    lines 88-94 (taken by the action, which hands the result over)
next_statement(locals, t) ==
  LET my == locals[t]
  IN  CASE my.pc = "fuzzify" /\ my.todo # <<>> ->
             [locals EXCEPT ![t] =
                [my EXCEPT
                   !.todo = Tail(@),
                   !.fuzzified =
                      IF Head(my.todo) \in DOMAIN membership_functions
                      THEN dict_set(@, Head(my.todo),
                                    fuzzify_value(Head(my.todo),
                                                  my.features[Head(my.todo)]))
                      ELSE @]]
        [] my.pc = "fuzzify" /\ my.todo = <<>> ->
             [locals EXCEPT ![t].pc = "rules"]
        [] my.pc = "rules" /\ my.i <= Len(get_rules) ->
             LET acc == apply_rule(get_rules[my.i], my.fuzzified,
                          [output_aggregation |-> own_levels(locals, t),
                           activated_rules |-> my.activated_rules])
             IN  [locals EXCEPT ![t] =
                    [my EXCEPT
                       !.i = @ + 1,
                       !.output_aggregation = acc.output_aggregation,
                       !.activated_rules = acc.activated_rules]]
        [] my.pc = "rules" /\ my.i > Len(get_rules) ->
             [locals EXCEPT ![t].pc = "defuzzify"]
        [] my.pc = "defuzzify" ->
             [locals EXCEPT ![t] =
                [my EXCEPT
                   !.fli_score = defuzzify_centroid(my.output_aggregation),
                   !.pc = "label"]]
        [] my.pc = "label" ->
             [locals EXCEPT ![t] =
                [my EXCEPT
                   !.linguistic_label = get_linguistic_label(my.fli_score),
                   !.pc = "return"]]

\* Lines 88-94: the dict the call returns.
result_of(my) ==
  [fli_score |-> my.fli_score,
   linguistic_label |-> my.linguistic_label,
   output_memberships |-> my.output_aggregation,
   activated_rules |-> my.activated_rules,
   input_fuzzification |-> my.fuzzified]

\* round(n / d) to the nearest integer, a tie to the even one (n >= 0, d > 0).
RoundHalfEven(n, d) ==
  LET q == n \div d
      r == n % d
  IN  IF 2 * r < d THEN q
      ELSE IF 2 * r > d THEN q + 1
      ELSE IF q % 2 = 0 THEN q ELSE q + 1

\* f"{x:.2f}" and f"{x:.3f}": the rational x = [num, den] as a count of
\* 1/scale (scale 100 or 1000), correctly rounded.
format_fixed(x, scale) ==
  (x.num \div x.den) * scale + RoundHalfEven((x.num % x.den) * scale, x.den)

\* A degree (in units of 1/ONE) as a rational.
AsRational(degree) == [num |-> degree, den |-> ONE]

\* str.upper() of a label.
upper(label) ==
  CASE label = "poor"      -> "POOR"
    [] label = "fair"      -> "FAIR"
    [] label = "good"      -> "GOOD"
    [] label = "excellent" -> "EXCELLENT"

RECURSIVE insert_descending(_, _)
\* Puts entry behind every entry of the descending list whose activation is
\* not smaller.
insert_descending(entry, list) ==
  IF list = <<>> THEN <<entry>>
  ELSE IF Head(list).activation >= entry.activation
       THEN <<Head(list)>> \o insert_descending(entry, Tail(list))
       ELSE <<entry>> \o list

RECURSIVE insert_descending_by_id(_, _)
\* Puts entry in front of the entries with the same activation.
insert_descending_by_id(entry, list) ==
  IF list = <<>> THEN <<entry>>
  ELSE IF Head(list).activation > entry.activation
       THEN <<Head(list)>> \o insert_descending_by_id(entry, Tail(list))
       ELSE <<entry>> \o list

RECURSIVE sorted_reversed(_)
\* A descending sort that reverses an ascending one: entries of equal
\* activation come out in reverse order.
sorted_reversed(list) ==
  IF list = <<>> THEN <<>>
  ELSE insert_descending_by_id(list[Len(list)],
                               sorted_reversed(SubSeq(list, 1, Len(list) - 1)))

RECURSIVE sorted_by_activation(_)
\* Lines 260-264: sorted(list, key=activation, reverse=True).  Python's sort
\* is stable, also with reverse=True: entries of equal activation keep the
\* order they have in list.
sorted_by_activation(list) ==
  IF list = <<>> THEN <<>>
  ELSE insert_descending(list[Len(list)],
                         sorted_by_activation(SubSeq(list, 1, Len(list) - 1)))

\* list[:n] for n >= 0.
take(list, n) == SubSeq(list, 1, Min2(n, Len(list)))

\* Lines 237-280: what the explanation text shows of result.  Numbers are
\* the printed ones: the score in hundredths, degrees and activations in
\* thousandths (degrees of at most 0.01 are not printed); the feature values
\* have at most two decimals and are kept as they are.
explanation_of(result, features, top_n_rules) ==
  [fli_score |-> format_fixed(result.fli_score, 100),
   linguistic_label |-> upper(result.linguistic_label),
   input_features |->
     [var \in DOMAIN features |->
        [value |-> features[var],
         degrees |->
           IF var \in DOMAIN result.input_fuzzification
           THEN LET fuzz_values == result.input_fuzzification[var]
                IN  [term \in {t \in DOMAIN fuzz_values :
                                 is_significant(fuzz_values[t])} |->
                       format_fixed(AsRational(fuzz_values[term]), 1000)]
           ELSE <<>>]],
   top_n_rules |-> top_n_rules,
   sorted_rules |->
     LET sorted_rules == take(sorted_by_activation(result.activated_rules),
                              top_n_rules)
     IN  [i \in 1..Len(sorted_rules) |->
            [rule_id |-> sorted_rules[i].rule_id,
             activation |->
               format_fixed(AsRational(sorted_rules[i].activation), 1000)]],
   output_memberships |->
     [term \in {t \in OutputTerms :
                  is_significant(result.output_memberships[t])} |->
        format_fixed(AsRational(result.output_memberships[term]), 1000)]]

RECURSIVE summed_activation(_, _)
\* The sum of the listed activations of the rules with consequent term.
summed_activation(activated_rules, term) ==
  IF activated_rules = <<>> THEN 0
  ELSE (IF (CHOOSE r \in {rules[i] : i \in 1..Len(rules)} :
              r.id = Head(activated_rules).rule_id).consequent = term
        THEN Head(activated_rules).activation ELSE 0)
       + summed_activation(Tail(activated_rules), term)

\* An explanation with a scoring path of its own: it derives the output
\* levels from the listed rules by a bounded sum and defuzzifies them again.
explain_dwelling_rederived(features, top_n_rules) ==
  LET result == compute_single_dwelling(features)
      levels == [t \in OutputTerms |->
                   Min2(ONE, summed_activation(result.activated_rules, t))]
      score  == defuzzify_centroid(levels)
  IN  explanation_of([result EXCEPT !.fli_score = score,
                                    !.linguistic_label =
                                       get_linguistic_label(score),
                                    !.output_memberships = levels],
                     features, top_n_rules)

\* Lines 218-280.
explain_dwelling(features, top_n_rules) ==
  explanation_of(compute_single_dwelling(features), features, top_n_rules)

\* Batch scoring.  A data frame is the sequence of (idx, row) pairs that
\* df.iterrows() yields: idx is the row's index label, row maps the frame's
\* column names to the row's cells.  A cell of the column daylight_avg holds
\* the number in thousandths (350 is 0.35, 350000 is 350.0), so that
\* kilolux values are integers; the other columns are in the unit of their
\* variable.

\* Lines 175-183: the mapping used when the caller passes none, in the order
\* of the dict.
default_feature_mapping ==
  << <<"noise_lden", "noise_lden">>,
     <<"noise_lnight", "noise_lnight">>,
     <<"daylight_avg", "daylight">>,
     <<"view_sky", "view_sky">>,
     <<"view_greenery", "view_greenery">>,
     <<"location_poi_count", "location_poi">> >>

\* A number of thousandths as lux.
thousandths_to_lux(value) == value \div 1000

\* Lines 193-195: `if value < 10: value = value * 1000`.  NaN < 10 is False.
klx_to_lux(value) ==
  IF value = NaN THEN NaN
  ELSE IF value < 10 * 1000 THEN thousandths_to_lux(value * 1000)
  ELSE thousandths_to_lux(value)

\* Lines 189-196, from the given pair of the mapping on.  Comparing a cell
\* that is no number with 10 (line 194) raises TypeError.
RECURSIVE extract_features(_, _, _, _)
extract_features(row, feature_mapping, i, features) ==
  IF i > Len(feature_mapping) THEN features
  ELSE LET dataset_col == feature_mapping[i][1]
           fuzzy_var   == feature_mapping[i][2]
       IN  IF dataset_col \notin DOMAIN row
           THEN extract_features(row, feature_mapping, i + 1, features)
           ELSE IF fuzzy_var = "daylight" /\ row[dataset_col] = Text
           THEN [raised |-> "TypeError"]
           ELSE extract_features(row, feature_mapping, i + 1,
                  dict_set(features, fuzzy_var,
                           IF fuzzy_var = "daylight"
                           THEN klx_to_lux(row[dataset_col])
                           ELSE row[dataset_col]))

\* Lines 185-206: the loop over df.iterrows(), from row i on.  No statement
\* of the loop is inside a try block: an error raised for one row leaves the
\* loop and the method.
RECURSIVE score_rows(_, _, _, _)
score_rows(df, feature_mapping, i, results) ==
  IF i > Len(df) THEN [raised |-> "", results |-> results]
  ELSE LET features == extract_features(df[i].row, feature_mapping, 1, <<>>)
           result   == compute_single_dwelling(features)
       IN  IF "raised" \in DOMAIN features
           THEN [raised |-> features.raised, results |-> results]
           ELSE IF "raised" \in DOMAIN result
           THEN [raised |-> result.raised, results |-> results]
           ELSE score_rows(df, feature_mapping, i + 1,
                  Append(results,
                         [dwelling_id |-> df[i].idx,
                          fli_score |-> result.fli_score,
                          linguistic_label |-> result.linguistic_label,
                          num_activated_rules |->
                            Len(result.activated_rules)]))

\* Lines 172-216, called without feature_mapping.  pd.DataFrame([]) (line
\* 208) has no column, so results_df['fli_score'] (line 212) raises KeyError
\* when no row was scored.
compute_batch(df) ==
  LET scored == score_rows(df, default_feature_mapping, 1, <<>>)
  IN  IF scored.raised # "" THEN [raised |-> scored.raised]
      ELSE IF scored.results = <<>> THEN [raised |-> "KeyError"]
      ELSE [results_df |-> scored.results]

---------------------------------------------------------------------------
(* Callers                                                                 *)

\* The largest number of keys of a scored feature record.
MaxFeatures == 6

\* How many universe steps beyond either end fuzzify_value is probed.
Margin == 4

\* Marks a key that a feature record does not hold.
Absent == 0 - 1000000

\* The values a feature takes in the records the model scores: two input
\* keys the membership model knows beside the six inputs ("livability") or
\* does not know ("building_id").
SampleValues ==
  [noise_lden    |-> {520, 750, 900},
   noise_lnight  |-> {430, 650},
   daylight      |-> {60, 200, 350},
   view_sky      |-> {100, 250},
   view_greenery |-> {20, 80, 115},
   location_poi  |-> {30, 350, 485},
   livability    |-> {50},
   building_id   |-> {7}]

FeatureKeys == DOMAIN SampleValues

\* Lines 313-320: 52 dBA, 43 dBA, 350 lux, 2.5 sr, 0.8 sr, 35 POI.
example_dwelling ==
  [noise_lden |-> 520, noise_lnight |-> 430, daylight |-> 350,
   view_sky |-> 250, view_greenery |-> 80, location_poi |-> 350]

\* The dict a choice of values (or Absent) per key stands for.
AsFeatures(c) == [k \in {j \in FeatureKeys : c[j] # Absent} |-> c[k]]

FeatureRecords ==
  { AsFeatures(c) :
      c \in { d \in [noise_lden    : SampleValues.noise_lden \cup {Absent},
                     noise_lnight  : SampleValues.noise_lnight \cup {Absent},
                     daylight      : SampleValues.daylight \cup {Absent},
                     view_sky      : SampleValues.view_sky \cup {Absent},
                     view_greenery : SampleValues.view_greenery \cup {Absent},
                     location_poi  : SampleValues.location_poi \cup {Absent},
                     livability    : SampleValues.livability \cup {Absent},
                     building_id   : SampleValues.building_id \cup {Absent}] :
                Cardinality({k \in FeatureKeys : d[k] # Absent}) <= MaxFeatures } }

\* The values fuzzify_value is probed with: every unit from Margin steps
\* below the universe to Margin steps above it, and two far away.
ProbeValues(variable) ==
  LET x     == universes[variable]
      first == x[0]
      last  == x[Size(x) - 1]
      step  == x[1] - x[0]
  IN  ((first - Margin * step) .. (last + Margin * step))
        \cup {first - 10 * (last - first), last + 10 * (last - first)}

\* The scores get_linguistic_label is probed with: 0, 0.5, 1, ..., 100.
ProbeScores == {[num |-> k, den |-> 2] : k \in 0..200}

Init ==
  /\ call = [op |-> "idle"]
  /\ ret = "None"
  /\ seen = [kept |-> FALSE]

\* A caller scores one feature record.
Score ==
  /\ call.op = "idle"
  /\ \E f \in FeatureRecords :
       /\ call' = [op |-> "compute_single_dwelling", features |-> f]
       /\ ret' = compute_single_dwelling(f)
  /\ UNCHANGED seen

\* The variable names a caller looks up: the defined ones and one that the
\* membership model does not define.
LookupVariables == DOMAIN membership_functions \cup {"building_id"}

\* The term names a caller looks up: every term of some variable (so also
\* terms of another variable) and one that no variable has.
LookupTerms ==
  UNION {DOMAIN membership_functions[v] : v \in DOMAIN membership_functions}
    \cup {"very_good"}

\* The values a caller fuzzifies for a variable.
FuzzifyValues(variable) ==
  IF variable \in DOMAIN universes THEN ProbeValues(variable)
  ELSE SampleValues[variable]

\* A caller fuzzifies one crisp value.
Fuzzify ==
  /\ call.op = "idle"
  /\ \E variable \in LookupVariables :
       \E value \in FuzzifyValues(variable) :
         /\ call' = [op |-> "fuzzify_value", variable |-> variable,
                     value |-> value]
         /\ ret' = fuzzify_value(variable, value)
  /\ UNCHANGED seen

\* The engine labels one score; the caller holds the label under the name
\* it has in a result.
Label ==
  /\ call.op = "idle"
  /\ \E s \in ProbeScores :
       /\ call' = [op |-> "get_linguistic_label", fli_score |-> s]
       /\ ret' = [linguistic_label |-> get_linguistic_label(s)]
  /\ UNCHANGED seen

\* The caller takes the result; the engine keeps nothing of the call.  A
\* caller that has kept an earlier result notes that a call came after it.
Return ==
  /\ call.op # "idle"
  /\ call' = [op |-> "idle"]
  /\ ret' = "None"
  /\ seen' = IF seen.kept THEN [seen EXCEPT !.between = TRUE] ELSE seen

Next == Label \/ Score \/ Fuzzify \/ Return

Spec == Init /\ [][Next]_vars

\* The records whose result a caller keeps for a later comparison.
KeptRecords ==
  {f \in FeatureRecords :
     /\ DOMAIN f = {"noise_lden", "daylight", "view_sky"}
     /\ f["noise_lden"] = 520 /\ f["daylight"] = 350}

\* The caller takes the result of a compute_single_dwelling call and keeps it
\* with the feature map it passed.
Keep ==
  /\ call.op = "compute_single_dwelling"
  /\ call.features \in KeptRecords
  /\ ~seen.kept
  /\ seen' = [kept |-> TRUE, features |-> call.features, result |-> ret,
              between |-> FALSE]
  /\ call' = [op |-> "idle"]
  /\ ret' = "None"

NextRepeat == Next \/ Keep

\* The engine used by a caller that compares a result with an earlier one.
SpecRepeat == Init /\ [][NextRepeat]_vars

\* The largest number of rules a caller asks an explanation to list
\* (top_n_rules; the default is 5).
MaxTopN == 5

\* The largest number of keys of an explained record that lacks an input.
MaxExplained == 3

\* The records a caller asks an explanation for: the small ones and those
\* that hold all six inputs.
ExplainRecords ==
  {f \in FeatureRecords :
     Cardinality(DOMAIN f) <= MaxExplained \/ InputVars \subseteq DOMAIN f}

\* A caller asks for the explanation of one feature record.
Explain ==
  /\ call.op = "idle"
  /\ \E f \in ExplainRecords :
       \E n \in 0..MaxTopN :
         /\ call' = [op |-> "explain_dwelling", features |-> f,
                     top_n_rules |-> n]
         /\ ret' = explain_dwelling(f, n)
  /\ UNCHANGED seen

NextExplain == Explain \/ Return

\* The largest number of keys of a record that carries an invalid value.
MaxInvalid == 3

\* Feature records in which one value of a key the engine fuzzifies is NaN or
\* no number.
InvalidRecords ==
  UNION {{[f EXCEPT ![k] = bad] :
            k \in DOMAIN f \cap DOMAIN membership_functions,
            bad \in {NaN, Text}} :
         f \in {g \in FeatureRecords : Cardinality(DOMAIN g) <= MaxInvalid}}

\* A caller scores a record with an invalid value.
ScoreInvalid ==
  /\ call.op = "idle"
  /\ \E f \in InvalidRecords :
       /\ call' = [op |-> "compute_single_dwelling", features |-> f]
       /\ ret' = compute_single_dwelling(f)
  /\ UNCHANGED seen

NextInvalid == ScoreInvalid \/ Return

\* The engine fed with invalid values.
SpecInvalid == Init /\ [][NextInvalid]_vars

\* The largest number of rows of a scored data frame.
MaxRows == 2

\* The cells a column of a scored data frame holds.  daylight_avg is in
\* thousandths: 0.35 (kilolux), 5.0, 60.0 and 350.0.  egid is a column the
\* default mapping does not name.
BatchCells ==
  [noise_lden   |-> {520, 750, Text},
   daylight_avg |-> {350, 5000, 60000, 350000, Text},
   egid         |-> {7}]

\* The column sets of the scored data frames.
BatchColumns ==
  {{"noise_lden", "daylight_avg"}, {"noise_lden", "daylight_avg", "egid"}}

\* The rows over the given columns.
BatchRows(columns) ==
  {row \in [columns -> UNION {BatchCells[c] : c \in columns}] :
     \A c \in columns : row[c] \in BatchCells[c]}

\* The index labels of a frame of n rows: pandas' default 0, 1, ... or
\* labels of the caller in another order.
BatchIndexes(n) ==
  {[i \in 1..n |-> i - 1], [i \in 1..n |-> 9000 - i]}

\* The data frames the model scores, the frame without rows among them.
BatchFrames ==
  UNION {{[i \in 1..n |-> [idx |-> index[i], row |-> rows[i]]] :
            rows \in [1..n -> BatchRows(columns)],
            index \in BatchIndexes(n)} :
         columns \in BatchColumns, n \in 0..MaxRows}

\* A caller scores a data frame.
Batch ==
  /\ call.op = "idle"
  /\ \E df \in BatchFrames :
       /\ call' = [op |-> "compute_batch", df |-> df]
       /\ ret' = compute_batch(df)
  /\ UNCHANGED seen

NextBatch == Batch \/ Return

\* The engine used for batches.
SpecBatch == Init /\ [][NextBatch]_vars

\* Feature records with a raw daylight value: 5 and 10, either side of the
\* threshold of the kilolux conversion, and 350.
RawDaylightRecords ==
  LET with350 == {f \in FeatureRecords :
                    /\ DOMAIN f \subseteq {"noise_lden", "daylight",
                                           "view_sky", "location_poi"}
                    /\ "daylight" \in DOMAIN f
                    /\ f["daylight"] = 350}
  IN  with350 \cup {[f EXCEPT !["daylight"] = raw] :
                      raw \in {5, 10}, f \in with350}

\* A caller scores one record that holds a raw daylight value.
ScoreRawDaylight ==
  /\ call.op = "idle"
  /\ \E f \in RawDaylightRecords :
       /\ call' = [op |-> "compute_single_dwelling", features |-> f]
       /\ ret' = compute_single_dwelling(f)
  /\ UNCHANGED seen

NextDaylight == ScoreRawDaylight \/ Batch \/ Return

\* The engine scoring raw daylight values, record by record and in batches.
SpecDaylight == Init /\ [][NextDaylight]_vars

\* The largest rule id a caller looks up.
MaxRuleId == 100

\* Ids below the smallest one that are looked up as well.
RuleIds == (0 - Margin)..MaxRuleId

\* A caller looks a rule up by its id.
GetRuleById ==
  /\ call.op = "idle"
  /\ \E rule_id \in RuleIds :
       /\ call' = [op |-> "get_rule_by_id", rule_id |-> rule_id]
       /\ ret' = get_rule_by_id(rule_id)
  /\ UNCHANGED seen

\* A caller asks for the rules of a consequent term: one of the four, or a
\* term of an input variable, or a term no variable has.
GetRulesByConsequent ==
  /\ call.op = "idle"
  /\ \E consequent_term \in LookupTerms :
       /\ call' = [op |-> "get_rules_by_consequent",
                   consequent_term |-> consequent_term]
       /\ ret' = get_rules_by_consequent(consequent_term)
  /\ UNCHANGED seen

NextRuleBase == GetRuleById \/ GetRulesByConsequent \/ Return

\* The rule base used on its own.
SpecRuleBase == Init /\ [][NextRuleBase]_vars

\* The largest number of calls in progress at once.
MaxCallers == 2

\* The records scored by concurrent callers: the example dwelling and a
\* noisy dark one that also holds a key the membership model does not know.
ConcurrentRecords ==
  {example_dwelling,
   [noise_lden |-> 750, daylight |-> 60, location_poi |-> 30,
    building_id |-> 7]}

\* Callers enter compute_single_dwelling on the one engine.
EnterCalls ==
  /\ call.op = "idle"
  /\ \E n \in 1..MaxCallers :
       \E fs \in [1..n -> ConcurrentRecords] :
         /\ call' = [op |-> "concurrent_calls",
                     locals |-> [t \in 1..n |-> enter_call(fs[t])]]
         /\ ret' = [t \in 1..n |-> [returned |-> FALSE]]
  /\ UNCHANGED seen

\* One call in progress executes its next statement.
Statement(t) ==
  /\ call.op = "concurrent_calls"
  /\ t \in DOMAIN call.locals
  /\ call.locals[t].pc \in {"fuzzify", "rules", "defuzzify", "label"}
  /\ call' = [call EXCEPT !.locals = next_statement(@, t)]
  /\ UNCHANGED <<ret, seen>>

\* One call in progress returns its result to its caller.
ReturnResult(t) ==
  /\ call.op = "concurrent_calls"
  /\ t \in DOMAIN call.locals
  /\ call.locals[t].pc = "return"
  /\ ret' = [ret EXCEPT ![t] = [returned |-> TRUE,
                                result |-> result_of(call.locals[t])]]
  /\ call' = [call EXCEPT !.locals[t].pc = "done"]
  /\ UNCHANGED seen

\* All calls have returned and the callers leave.
Leave ==
  /\ call.op = "concurrent_calls"
  /\ \A t \in DOMAIN call.locals : call.locals[t].pc = "done"
  /\ call' = [op |-> "idle"]
  /\ ret' = "None"
  /\ UNCHANGED seen

NextConcurrent ==
  \/ EnterCalls
  \/ \E t \in 1..MaxCallers : Statement(t)
  \/ \E t \in 1..MaxCallers : ReturnResult(t)
  \/ Leave

\* The engine called by several callers at once, without locks.
SpecConcurrent == Init /\ [][NextConcurrent]_vars

\* The levels a defuzzified output term is at: 0, the smallest positive
\* level of the model (1/ONE), 0.01, 0.5 and 1.
ProbeLevels == {0, 1, ONE \div 100, ONE \div 2, ONE}

\* The engine defuzzifies four output levels.
Defuzzify ==
  /\ call.op = "idle"
  /\ \E output_memberships \in [OutputTerms -> ProbeLevels] :
       /\ call' = [op |-> "_defuzzify_centroid",
                   output_memberships |-> output_memberships]
       /\ ret' = [fli_score |-> defuzzify_centroid(output_memberships)]
  /\ UNCHANGED seen

NextDefuzzify == Defuzzify \/ Score \/ Return

\* The engine's defuzzification, on its own and within scoring.
SpecDefuzzify == Init /\ [][NextDefuzzify]_vars

\* Records in which a rule fires faintly.  At 67.9, 67.8, 67.5 and 68 dBA
\* 'moderate' holds at 0.01, 0.02, 0.05 and 0, and rule 3 fires at that
\* degree (every other rule on 'moderate' finds an antecedent at 0).  At
\* 81 lux 'medium' holds at 1/120, and rules 4 and 6 fire at that degree.
FaintRecords ==
  {[noise_lden |-> n, daylight |-> 350, location_poi |-> 30] :
     n \in {675, 678, 679, 680}}
    \cup {[noise_lden |-> 520, daylight |-> 81, view_sky |-> 100]}

\* A caller scores a record in which a rule fires faintly.
ScoreFaint ==
  /\ call.op = "idle"
  /\ \E f \in FaintRecords :
       /\ call' = [op |-> "compute_single_dwelling", features |-> f]
       /\ ret' = compute_single_dwelling(f)
  /\ UNCHANGED seen

NextFaint == ScoreFaint \/ Score \/ Return

\* The engine scoring records with faint and with plain rule strengths.
SpecFaint == Init /\ [][NextFaint]_vars

\* Orders of the rule list: the list as defined turned by k places, the
\* same read backwards, and the list with two neighbours swapped.
Rotation(k) ==
  [i \in 1..Len(rules) |-> ((i - 1 + k) % Len(rules)) + 1]

Backwards(order) == [i \in 1..Len(order) |-> order[Len(order) + 1 - i]]

SwapNeighbours(j) ==
  [i \in 1..Len(rules) |-> IF i = j THEN j + 1 ELSE IF i = j + 1 THEN j ELSE i]

RuleOrders ==
  {Rotation(k) : k \in 0..(Len(rules) - 1)}
    \cup {Backwards(Rotation(k)) : k \in 0..(Len(rules) - 1)}
    \cup {SwapNeighbours(j) : j \in 1..(Len(rules) - 1)}

\* The records scored over reordered rules: all six inputs present (night
\* noise 43 dBA), and the records with faint rule strengths.
ReorderedRecords ==
  {f \in FeatureRecords :
     DOMAIN f = InputVars /\ f["noise_lnight"] = 430}
    \cup FaintRecords

\* A caller scores one record on an engine whose rule base lists the same
\* rules in another order.
ScoreReordered ==
  /\ call.op = "idle"
  /\ \E f \in ReorderedRecords :
       \E order \in RuleOrders :
         /\ call' = [op |-> "compute_single_dwelling", features |-> f,
                     rule_order |-> order]
         /\ ret' = compute_single_dwelling_in_order(f, order)
  /\ UNCHANGED seen

NextReordered == ScoreReordered \/ Return

\* Engines that differ in the order of their rule list.
SpecReordered == Init /\ [][NextReordered]_vars

\* A caller asks for the universe of a variable.
GetUniverse ==
  /\ call.op = "idle"
  /\ \E variable \in LookupVariables :
       /\ call' = [op |-> "get_universe", variable |-> variable]
       /\ ret' = get_universe(variable)
  /\ UNCHANGED seen

\* A caller asks for the sampled membership function of a term.
GetMembershipFunction ==
  /\ call.op = "idle"
  /\ \E variable \in LookupVariables :
       \E term \in LookupTerms :
         /\ call' = [op |-> "get_membership_function",
                     variable |-> variable, term |-> term]
         /\ ret' = get_membership_function(variable, term)
  /\ UNCHANGED seen

NextLookup == GetUniverse \/ GetMembershipFunction \/ Fuzzify \/ Return

\* The membership model used on its own.
SpecLookup == Init /\ [][NextLookup]_vars

\* The engine used for explanations.
SpecExplain == Init /\ [][NextExplain]_vars

---------------------------------------------------------------------------
(* Properties                                                              *)

IsScore == call.op = "compute_single_dwelling"
\* A fuzzify_value call for a variable the membership model defines.
IsFuzzify ==
  /\ call.op = "fuzzify_value"
  /\ call.variable \in DOMAIN membership_functions
IsLabel == call.op = "get_linguistic_label"

Range(s) == {s[i] : i \in 1..Len(s)}
LastOf(array) == array[Size(array) - 1]
SetMin(S) == CHOOSE m \in S : \A n \in S : m <= n
SetMax(S) == CHOOSE m \in S : \A n \in S : m >= n

RuleById(id) == CHOOSE r \in Range(rules) : r.id = id
ListedIds(result) == {a.rule_id : a \in Range(result.activated_rules)}
AntecedentVars(rule) == {p[1] : p \in Range(rule.antecedents)}

\* The degrees of a rule's antecedents that the fuzzification result holds.
FoundDegrees(rule, fuzzified) ==
  {fuzzified[p[1]][p[2]] :
     p \in {q \in Range(rule.antecedents) :
              q[1] \in DOMAIN fuzzified /\ q[2] \in DOMAIN fuzzified[q[1]]}}

\* 100 times a rule's firing strength: 0 when no antecedent was found.
Strength100(rule, fuzzified) ==
  IF FoundDegrees(rule, fuzzified) = {} THEN 0
  ELSE SetMin(FoundDegrees(rule, fuzzified)) * rule.weight

\* The band table of the labelling step: does score s lie in band L?
InBand(s, L) ==
  CASE L = "excellent" -> s.num >= 65 * s.den
    [] L = "good"      -> s.num >= 45 * s.den /\ s.num < 65 * s.den
    [] L = "fair"      -> s.num >= 25 * s.den /\ s.num < 45 * s.den
    [] L = "poor"      -> s.num < 25 * s.den

\* C1: for every feature record (any subset of the inputs, values in range
\* or not) the score compute_single_dwelling returns lies in [0, 100].
C1_ScoreWithinBounds ==
  IsScore =>
    /\ ret.fli_score.den > 0
    /\ 0 <= ret.fli_score.num
    /\ ret.fli_score.num <= 100 * ret.fli_score.den

\* A score computed as a centroid for a record with an out-of-range value.
C1_Witness ==
  /\ IsScore
  /\ "noise_lden" \in DOMAIN call.features
  /\ call.features["noise_lden"] > LastOf(universes["noise_lden"])
  /\ ret.fli_score.den > 1
  /\ ret.fli_score.num < 25 * ret.fli_score.den

\* C2: the returned label is the band of the returned score: excellent iff
\* score >= 65, good iff 45 <= score < 65, fair iff 25 <= score < 45, poor
\* iff score < 25; each boundary value belongs to the upper band.
C2_LabelIsBandOfScore ==
  /\ IsScore =>
       \A L \in OutputTerms :
         (ret.linguistic_label = L) <=> InBand(ret.fli_score, L)
  /\ IsLabel =>
       \A L \in OutputTerms :
         (ret.linguistic_label = L) <=> InBand(call.fli_score, L)

\* The boundary score 65 is labelled excellent.
C2_Witness ==
  /\ IsLabel
  /\ call.fli_score.num = 65 * call.fli_score.den
  /\ ret.linguistic_label = "excellent"

\* C3: a rule fires only if every one of its antecedents has an entry in
\* the fuzzification result: a rule with an antecedent variable absent from
\* the feature record is not recorded as activated.
C3_FiresOnlyWithAllAntecedents ==
  IsScore =>
    \A r \in Range(rules) :
      (\E v \in AntecedentVars(r) : v \notin DOMAIN call.features)
        => r.id \notin ListedIds(ret)

\* C4: a record in which no rule has all of its antecedent variables
\* present is scored 50.0 and labelled good.
C4_DefaultWhenNoRuleComplete ==
  (IsScore /\ \A r \in Range(rules) :
                \E v \in AntecedentVars(r) : v \notin DOMAIN call.features)
    => /\ ret.fli_score.num = 50 * ret.fli_score.den
       /\ ret.linguistic_label = "good"

\* C5: for the empty map and for a map whose keys are all unknown to the
\* membership model, compute_single_dwelling returns score 50.0, label
\* good, all four output degrees 0 and no activated rule.
C5_DefaultForUnmatchedRecord ==
  (IsScore /\ DOMAIN call.features \cap DOMAIN membership_functions = {})
    => ret = [fli_score |-> [num |-> 50, den |-> 1],
              linguistic_label |-> "good",
              output_memberships |-> [t \in OutputTerms |-> 0],
              activated_rules |-> <<>>,
              input_fuzzification |-> <<>>]

\* A scored record that holds only a key the membership model does not know.
C5_Witness ==
  /\ IsScore
  /\ DOMAIN call.features = {"building_id"}
  /\ ret.linguistic_label = "good"

\* C6: the firing strength of a rule that fires is the minimum of its
\* antecedent degrees times the rule's weight, never their product.
C6_StrengthIsMinTimesWeight ==
  IsScore =>
    \A a \in Range(ret.activated_rules) :
      LET degrees == FoundDegrees(RuleById(a.rule_id), ret.input_fuzzification)
      IN  /\ degrees # {}
          /\ a.activation * 100 = SetMin(degrees) * RuleById(a.rule_id).weight

\* Rule 2 (weight 1.0) with all antecedents present, at degrees 3/7, 0.2
\* and 0.9, fires at 0.2.
C6_Witness ==
  /\ IsScore
  /\ {"noise_lden", "view_greenery", "location_poi"} \subseteq DOMAIN call.features
  /\ ret.input_fuzzification["noise_lden"]["quiet"] * 7 = 3 * ONE
  /\ ret.input_fuzzification["view_greenery"]["good"] * 5 = ONE
  /\ ret.input_fuzzification["location_poi"]["high"] * 10 = 9 * ONE
  /\ \E a \in Range(ret.activated_rules) :
       a.rule_id = 2 /\ a.activation * 5 = ONE

\* C7: after all rules are evaluated, the aggregated activation of each
\* output term is the maximum of the firing strengths of the rules with
\* that consequent (0 if none fired), never their sum.
C7_AggregationIsMax ==
  IsScore =>
    \A t \in OutputTerms :
      ret.output_memberships[t] * 100 =
        SetMax({0} \cup {Strength100(r, ret.input_fuzzification) :
                           r \in {q \in Range(rules) : q.consequent = t}})

\* Two rules with the same consequent fire at different positive strengths
\* and the term's level is the larger one.
C7_Witness ==
  /\ IsScore
  /\ \E r1, r2 \in Range(rules) :
       /\ r1.consequent = r2.consequent
       /\ Strength100(r2, ret.input_fuzzification) > 0
       /\ Strength100(r1, ret.input_fuzzification)
            > Strength100(r2, ret.input_fuzzification)
       /\ ret.output_memberships[r1.consequent] * 100
            = Strength100(r1, ret.input_fuzzification)

\* C8: with noise-day = 75 dBA the label is poor whatever the values of the
\* other five inputs.
C8_NoisyDayIsPoor ==
  (IsScore /\ InputVars \subseteq DOMAIN call.features
           /\ call.features["noise_lden"] = 750)
    => ret.linguistic_label = "poor"

\* C9: for every variable and term and every input value, also far outside
\* the universe, fuzzify_value returns a degree in [0, 1].
C9_DegreeWithinUnitInterval ==
  IsFuzzify =>
    /\ DOMAIN ret = DOMAIN membership_functions[call.variable]
    /\ \A term \in DOMAIN ret : 0 <= ret[term] /\ ret[term] <= ONE

\* A value far above the universe has been fuzzified.
C9_Witness ==
  /\ IsFuzzify
  /\ call.value > LastOf(universes[call.variable])
                    + Margin * (universes[call.variable][1]
                                  - universes[call.variable][0])
  /\ \A term \in DOMAIN ret : ret[term] = 0

\* The degree a term has at the end of the sampled universe nearest to value.
NearestEdgeDegree(variable, term, value) ==
  IF value < universes[variable][0]
  THEN membership_functions[variable][term][0]
  ELSE LastOf(membership_functions[variable][term])

\* C10: for a value outside a variable's sampled universe, fuzzify_value
\* returns for each term the degree the term has at the nearest end of the
\* universe.
C10_ClampsToNearestEdge ==
  (IsFuzzify /\ (\/ call.value < universes[call.variable][0]
                 \/ call.value > LastOf(universes[call.variable])))
    => \A term \in DOMAIN ret :
         ret[term] = NearestEdgeDegree(call.variable, term, call.value)

\* The breakpoints (x0, x1, x2, x3) of a term; a triangle has x1 = x2.
Breakpoints4(p) == IF Len(p) = 3 THEN <<p[1], p[2], p[2], p[3]>> ELSE p

\* Is d the piecewise-linear degree of v for breakpoints p?  1 on [x1, x2]
\* (a flat shoulder has x0 = x1 or x2 = x3), 0 for v <= x0 or v >= x3,
\* (v - x0) / (x1 - x0) and (x3 - v) / (x3 - x2) on the two ramps.
IsPiecewiseLinearDegree(d, p, v) ==
  LET q == Breakpoints4(p)
  IN  IF q[2] <= v /\ v <= q[3] THEN d = ONE
      ELSE IF v <= q[1] \/ v >= q[4] THEN d = 0
      ELSE IF v < q[2] THEN d * (q[2] - q[1]) = ONE * (v - q[1])
      ELSE d * (q[4] - q[3]) = ONE * (q[4] - v)

\* Does value lie between the first and the last sample of the universe?
InsideUniverse(variable, value) ==
  /\ universes[variable][0] <= value
  /\ value <= LastOf(universes[variable])

\* Is value strictly between two neighbouring samples of the universe?
BetweenSamples(variable, value) ==
  /\ InsideUniverse(variable, value)
  /\ (value - universes[variable][0])
       % (universes[variable][1] - universes[variable][0]) # 0

KnownPart(features) ==
  [k \in DOMAIN features \cap DOMAIN membership_functions |-> features[k]]

C13_UnknownKeysIgnored ==
  (IsScore /\ seen.kept
           /\ KnownPart(call.features) = KnownPart(seen.features))
    => ret = seen.result

\* The kept map with an unknown key added has been scored.
C13_Witness ==
  /\ IsScore
  /\ seen.kept
  /\ DOMAIN call.features = DOMAIN seen.features \cup {"building_id"}
  /\ KnownPart(call.features) = seen.features
  /\ ret.activated_rules # <<>>

IsExplain == call.op = "explain_dwelling"

\* The firing strength compute_single_dwelling records for rule id.
ActivationOf(result, id) ==
  (CHOOSE a \in Range(result.activated_rules) : a.rule_id = id).activation

\* The order of the explanation: stronger first, lower id first at a tie.
ListedBefore(result, id1, id2) ==
  \/ ActivationOf(result, id1) > ActivationOf(result, id2)
  \/ /\ ActivationOf(result, id1) = ActivationOf(result, id2)
     /\ id1 < id2

\* C14: explain_dwelling lists at most N activated rules, each once, in
\* descending order of firing strength with the lower id first at equal
\* strength; a rule is omitted only if N rules that precede it in this order
\* are listed.
C14_TopRulesInOrder ==
  IsExplain =>
    LET result == compute_single_dwelling(call.features)
        shown  == ret.sorted_rules
        ids    == {shown[i].rule_id : i \in 1..Len(shown)}
    IN  /\ Len(shown) <= call.top_n_rules
        /\ ids \subseteq ListedIds(result)
        /\ \A i, j \in 1..Len(shown) :
             i < j => ListedBefore(result, shown[i].rule_id, shown[j].rule_id)
        /\ \A id \in ListedIds(result) \ ids :
             /\ Len(shown) = call.top_n_rules
             /\ \A i \in 1..Len(shown) :
                  ListedBefore(result, shown[i].rule_id, id)

\* Two listed rules tie, and a rule that ties with them is cut off by N.
C14_Witness ==
  /\ IsExplain
  /\ Len(ret.sorted_rules) >= 2
  /\ LET result == compute_single_dwelling(call.features)
         last   == ret.sorted_rules[Len(ret.sorted_rules)].rule_id
         before == ret.sorted_rules[Len(ret.sorted_rules) - 1].rule_id
     IN  /\ ActivationOf(result, before) = ActivationOf(result, last)
         /\ \E id \in ListedIds(result) :
              /\ id > last
              /\ ActivationOf(result, id) = ActivationOf(result, last)

\* Is shown the printed form, in units of 1/scale, of the rational x?
IsPrintedForm(shown, x, scale) ==
  LET rest == (x.num % x.den) * scale
             - (shown - (x.num \div x.den) * scale) * x.den
  IN  0 - x.den <= 2 * rest /\ 2 * rest <= x.den

\* C15: the score, label, rule activations and output degrees that
\* explain_dwelling shows are those compute_single_dwelling returns for the
\* same map, as printed (two and three decimals, the label in upper case,
\* output degrees above 0.01).
C15_ExplainsComputedResult ==
  IsExplain =>
    LET result == compute_single_dwelling(call.features)
    IN  /\ IsPrintedForm(ret.fli_score, result.fli_score, 100)
        /\ ret.linguistic_label = upper(result.linguistic_label)
        /\ \A i \in 1..Len(ret.sorted_rules) :
             /\ ret.sorted_rules[i].rule_id \in ListedIds(result)
             /\ IsPrintedForm(ret.sorted_rules[i].activation,
                   AsRational(ActivationOf(result, ret.sorted_rules[i].rule_id)),
                   1000)
        /\ DOMAIN ret.output_memberships =
             {t \in OutputTerms : result.output_memberships[t] * 100 > ONE}
        /\ \A t \in DOMAIN ret.output_memberships :
             IsPrintedForm(ret.output_memberships[t],
                           AsRational(result.output_memberships[t]), 1000)

\* An explanation of a record with all six inputs whose score is a centroid:
\* two rules with the same consequent fire.
C15_Witness ==
  /\ IsExplain
  /\ InputVars \subseteq DOMAIN call.features
  /\ Len(ret.sorted_rules) >= 2
  /\ \E i, j \in 1..Len(ret.sorted_rules) :
       /\ i < j
       /\ RuleById(ret.sorted_rules[i].rule_id).consequent
            = RuleById(ret.sorted_rules[j].rule_id).consequent
  /\ ret.fli_score % 100 # 0

\* Is term the term of variable with the highest degree in fuzzified?
HighestIn(fuzzified, variable, term) ==
  \A other \in DOMAIN fuzzified[variable] \ {term} :
    fuzzified[variable][term] > fuzzified[variable][other]

\* C16: for the record noise-day 52, noise-night 43, daylight 350, sky-view
\* 2.5, greenery-view 0.8, poi-count 35, daylight has its highest degree in
\* high, sky-view in good, noise-day has nonzero degrees in quiet and
\* moderate only, and the score is at least 45 (label good or excellent).
C16_ExampleDwelling ==
  (IsScore /\ call.features = example_dwelling) =>
    /\ HighestIn(ret.input_fuzzification, "daylight", "high")
    /\ HighestIn(ret.input_fuzzification, "view_sky", "good")
    /\ ret.input_fuzzification["noise_lden"]["quiet"] > 0
    /\ ret.input_fuzzification["noise_lden"]["moderate"] > 0
    /\ ret.input_fuzzification["noise_lden"]["noisy"] = 0
    /\ ret.fli_score.num >= 45 * ret.fli_score.den
    /\ ret.linguistic_label \in {"good", "excellent"}

\* The example record has been scored: rules 1 and 3 fire at 3/7 and 1/4 and
\* the score is 76.76 to two decimals, excellent.
C16_Witness ==
  /\ IsScore
  /\ call.features = example_dwelling
  /\ ListedIds(ret) = {1, 3}
  /\ ret.output_memberships["excellent"] * 7 = 3 * ONE
  /\ ret.output_memberships["good"] * 4 = ONE
  /\ format_fixed(ret.fli_score, 100) = 7676
  /\ ret.linguistic_label = "excellent"

\* Has the call failed with an error of one of the kinds?
Raised(result, kinds) ==
  "raised" \in DOMAIN result /\ result.raised \in kinds

\* C17: the membership-model lookups signal configuration errors:
\* get_universe fails with UnknownVariable for an undefined variable,
\* get_membership_function fails with UnknownVariable or UnknownTerm for an
\* undefined variable or term, fuzzify_value fails with UnknownVariable for
\* an undefined variable; none returns an empty or null result.
C17_LookupsSignalErrors ==
  /\ (call.op = "get_universe" /\ call.variable \notin DOMAIN universes)
       => Raised(ret, {"UnknownVariable"})
  /\ (call.op = "get_membership_function"
        /\ call.variable \notin DOMAIN membership_functions)
       => Raised(ret, {"UnknownVariable"})
  /\ (call.op = "get_membership_function"
        /\ call.variable \in DOMAIN membership_functions
        /\ call.term \notin DOMAIN membership_functions[call.variable])
       => Raised(ret, {"UnknownTerm"})
  /\ (call.op = "fuzzify_value"
        /\ call.variable \notin DOMAIN membership_functions)
       => Raised(ret, {"UnknownVariable"})

\* C18: when a feature the engine fuzzifies carries NaN or a value that is
\* no number, compute_single_dwelling fails with InvalidFeatureValue; it
\* returns no score.
C18_InvalidValueFailsFast ==
  (IsScore /\ \E var \in DOMAIN call.features \cap DOMAIN membership_functions :
                call.features[var] \in {NaN, Text})
    => Raised(ret, {"InvalidFeatureValue"})


IsBatch == call.op = "compute_batch"

\* The features compute_batch passes on for a row.
MappedFeatures(row) == extract_features(row, default_feature_mapping, 1, <<>>)

\* Does scoring the row on its own raise an error?
RowRaises(row) ==
  \/ "raised" \in DOMAIN MappedFeatures(row)
  \/ "raised" \in DOMAIN compute_single_dwelling(MappedFeatures(row))

\* C19: in compute_batch an error raised while scoring one record is caught
\* and reported for that record, and the remaining records are still scored:
\* a batch that holds a malformed record and a well-formed one does not
\* abort, and every well-formed record has a result under its identifier.
C19_MalformedRecordNeverAborts ==
  (/\ IsBatch
   /\ \E i \in DOMAIN call.df : RowRaises(call.df[i].row)
   /\ \E i \in DOMAIN call.df : ~RowRaises(call.df[i].row))
    => /\ "results_df" \in DOMAIN ret
       /\ \A i \in DOMAIN call.df :
            ~RowRaises(call.df[i].row)
              => \E j \in DOMAIN ret.results_df :
                   ret.results_df[j].dwelling_id = call.df[i].idx

\* The returned frame has one row per input row, in input order, with the
\* input row's index label and the score and label compute_single_dwelling
\* gives for the row's mapped features.
MapsScoreInOrder ==
  /\ "results_df" \in DOMAIN ret
  /\ Len(ret.results_df) = Len(call.df)
  /\ \A i \in DOMAIN call.df :
       LET single == compute_single_dwelling(MappedFeatures(call.df[i].row))
       IN  /\ ret.results_df[i].dwelling_id = call.df[i].idx
           /\ ret.results_df[i].fli_score = single.fli_score
           /\ ret.results_df[i].linguistic_label = single.linguistic_label

\* C20: compute_batch returns exactly one result per input record, in input
\* order, each with the record's identifier and with the score and label
\* compute_single_dwelling returns for the record's mapped features;
\* stated for every batch of records that each score without error, however
\* many they are.
C20_OneResultPerRecord ==
  (IsBatch /\ \A i \in DOMAIN call.df : ~RowRaises(call.df[i].row))
    => MapsScoreInOrder

\* The same for batches of at least one record.
NonEmptyBatchMapsScore ==
  (/\ IsBatch
   /\ call.df # <<>>
   /\ \A i \in DOMAIN call.df : ~RowRaises(call.df[i].row))
    => MapsScoreInOrder


\* The dataset column the default mapping reads a variable from.
ColumnOf(var) ==
  (CHOOSE m \in Range(default_feature_mapping) : m[2] = var)[1]

\* The one-row data frame that holds a feature record of input variables:
\* the columns the default mapping reads, daylight_avg in thousandths.
AsFrame(features) ==
  << [idx |-> 0,
      row |-> [c \in {ColumnOf(var) : var \in DOMAIN features} |->
                 LET var == CHOOSE v \in DOMAIN features : ColumnOf(v) = c
                 IN  IF var = "daylight" THEN features[var] * 1000
                     ELSE features[var]]] >>

\* The value that is to be fuzzified for a raw daylight value.
ConvertedDaylight(raw) == IF raw < 10 THEN raw * 1000 ELSE raw

\* C21: a daylight value below 10 is multiplied by 1000 before it is
\* fuzzified and a value of 10 or more is fuzzified unchanged, in
\* compute_single_dwelling as in compute_batch, so that both give the same
\* score for the same raw daylight value.
C21_DaylightConvertedInBothPaths ==
  (IsScore /\ "daylight" \in DOMAIN call.features)
    => /\ ret.input_fuzzification["daylight"] =
            fuzzify_value("daylight",
                          ConvertedDaylight(call.features["daylight"]))
       /\ LET batch == compute_batch(AsFrame(call.features))
          IN  /\ "results_df" \in DOMAIN batch
              /\ batch.results_df[1].fli_score = ret.fli_score
              /\ batch.results_df[1].linguistic_label = ret.linguistic_label


\* The rules of the term in the order of get_rules_by_consequent, as a set.
GroupOf(term) == Range(get_rules_by_consequent(term))

\* The rule base as defined: 15 rules, ids pairwise distinct integers, 1 to 3
\* antecedents, one consequent term of the four, a weight in (0, 1].
RuleBaseWellFormed ==
  /\ Len(rules) = 15
  /\ \A i \in DOMAIN rules :
       /\ rules[i].id \in Int
       /\ \A j \in DOMAIN rules : rules[i].id = rules[j].id => i = j
       /\ Len(rules[i].antecedents) \in 1..3
       /\ rules[i].consequent \in OutputTerms
       /\ rules[i].weight > 0 /\ rules[i].weight <= 100

\* The four groups cover the rules and no rule is in two of them.
GroupsPartitionRules ==
  /\ UNION {GroupOf(t) : t \in OutputTerms} = Range(rules)
  /\ \A t, u \in OutputTerms : t # u => GroupOf(t) \cap GroupOf(u) = {}
  /\ \A t \in OutputTerms :
       Len(get_rules_by_consequent(t)) = Cardinality(GroupOf(t))

\* C22: the rule base holds exactly 15 rules with pairwise distinct integer
\* ids, each with 1 to 3 antecedents, one consequent term among poor, fair,
\* good, excellent and a weight in (0, 1]; get_rule_by_id returns the unique
\* rule with the id or not-found (None); get_rules_by_consequent returns the
\* rules of the term, and its four groups partition the 15 rules.
C22_RuleBaseShape ==
  /\ RuleBaseWellFormed
  /\ GroupsPartitionRules
  /\ call.op = "get_rule_by_id"
       => IF \E r \in Range(rules) : r.id = call.rule_id
          THEN /\ ret \in Range(rules)
               /\ ret.id = call.rule_id
               /\ Cardinality({i \in DOMAIN rules :
                                 rules[i].id = call.rule_id}) = 1
          ELSE ret = None
  /\ call.op = "get_rules_by_consequent"
       => /\ Range(ret) = {r \in Range(rules) :
                             r.consequent = call.consequent_term}
          /\ Len(ret) = Cardinality(Range(ret))
          /\ (call.consequent_term \notin OutputTerms => ret = <<>>)

\* The rules concluding 'good' are asked for: 3, 4, 5, 13 and 14, which do
\* not follow one another in the list.
C22_Witness ==
  /\ call.op = "get_rules_by_consequent"
  /\ call.consequent_term = "good"
  /\ [i \in DOMAIN ret |-> ret[i].id] = <<3, 4, 5, 13, 14>>


\* Every antecedent names a term of an input variable of the membership
\* model, every consequent a term of 'livability'.
RulesReferToDefinedTerms ==
  \A i \in DOMAIN rules :
    /\ \A p \in Range(rules[i].antecedents) :
         /\ p[1] \in InputVars
         /\ p[1] \in DOMAIN membership_functions
         /\ p[2] \in DOMAIN membership_functions[p[1]]
    /\ rules[i].consequent \in DOMAIN membership_functions["livability"]

\* C23: every (variable, term) pair of a rule's antecedents is a term of one
\* of the six input variables in the membership model and every consequent
\* is a term of 'livability'; so when a record with all six inputs is
\* scored, every antecedent of every rule is found in the fuzzification.
C23_AntecedentsAreDefined ==
  /\ RulesReferToDefinedTerms
  /\ (IsScore /\ InputVars \subseteq DOMAIN call.features)
       => \A i \in DOMAIN rules :
            /\ \A p \in Range(rules[i].antecedents) :
                 /\ p[1] \in DOMAIN ret.input_fuzzification
                 /\ p[2] \in DOMAIN ret.input_fuzzification[p[1]]
            /\ Len(activation_degrees(rules[i].antecedents,
                                      ret.input_fuzzification))
                 = Len(rules[i].antecedents)

\* A record with all six inputs is scored and a three-antecedent rule fires.
C23_Witness ==
  /\ IsScore
  /\ InputVars \subseteq DOMAIN call.features
  /\ \E id \in ListedIds(ret) : Len(RuleById(id).antecedents) = 3


IsConcurrent == call.op = "concurrent_calls"

\* How many statements a call in progress has executed.
StatementsDone(my) ==
  LET keys == Cardinality(DOMAIN my.features)
      nrules == Len(get_rules)
  IN  CASE my.pc = "fuzzify"   -> keys - Len(my.todo)
        [] my.pc = "rules"     -> keys + 1 + (my.i - 1)
        [] my.pc = "defuzzify" -> keys + 1 + nrules + 1
        [] OTHER               -> keys + 1 + nrules + 2 +
                                    (IF my.pc = "label" THEN 0 ELSE 1)

RECURSIVE RunAlone(_, _)
\* The locals of a call that runs alone, after k statements.
RunAlone(features, k) ==
  IF k = 0 THEN <<enter_call(features)>>
  ELSE next_statement(RunAlone(features, k - 1), 1)

\* C24: compute_single_dwelling calls running concurrently on one engine,
\* in any interleaving of their statements and without locks, each return
\* the result the same call returns alone; at every point a call's working
\* state is the one it has at that point when it runs alone.
C24_ConcurrentCallsAsAlone ==
  IsConcurrent =>
    \A t \in DOMAIN call.locals :
      /\ ret[t].returned
           => ret[t].result = compute_single_dwelling(call.locals[t].features)
      /\ call.locals[t].pc # "done"
           => call.locals[t] =
                RunAlone(call.locals[t].features,
                         StatementsDone(call.locals[t]))[1]

\* Two calls are in progress; the second has returned the example
\* dwelling's result while the first, scoring another record, is in the
\* middle of its loop over the rules.
C24_Witness ==
  /\ IsConcurrent
  /\ Len(call.locals) = 2
  /\ call.locals[2].features = example_dwelling
  /\ ret[2].returned
  /\ ret[2].result.linguistic_label = "excellent"
  /\ call.locals[1].features # example_dwelling
  /\ call.locals[1].pc = "rules"
  /\ call.locals[1].i = 10


\* The envelope at the i-th point of the output universe: the largest, over
\* the four output terms, of the term's membership clipped at its level.
Envelope(levels, i) ==
  SetMax({Min2(levels[t], membership_functions["livability"][t][i]) :
            t \in OutputTerms})

\* Six times the first moment of the area under the polyline through the
\* points (u_i, env_i), and twice that area.
PolylineMoment6(u, env) ==
  LET n == Size(u) - 1
      m == [i \in 1..n |->
              (u[i] - u[i - 1]) * (u[i - 1] * (2 * env[i - 1] + env[i])
                                     + u[i] * (env[i - 1] + 2 * env[i]))]
  IN  SumOver(m, 1, n)

PolylineArea2(u, env) ==
  LET n == Size(u) - 1
      a == [i \in 1..n |-> (u[i] - u[i - 1]) * (env[i - 1] + env[i])]
  IN  SumOver(a, 1, n)

RECURSIVE GCD(_, _)
GCD(a, b) == IF b = 0 THEN a ELSE GCD(b, a % b)

\* A rational in lowest terms.
Reduced(x) ==
  [num |-> x.num \div GCD(x.num, x.den), den |-> x.den \div GCD(x.num, x.den)]

SomeLevelPositive(levels) == \E t \in OutputTerms : levels[t] > 0

\* C25 as the engine computes it: when some output level is positive, the
\* score is the centroid of the area under the polyline through the points
\* (u_i, env(u_i)), u_i = 0..100, where env(u_i) is the largest over the
\* four terms of min(level of the term, membership of the term at u_i): the
\* first moment of that area divided by the area.  A term at level 0 adds
\* nothing to the envelope.
C25_ScoreIsAreaCentroid ==
  (IsScore /\ SomeLevelPositive(ret.output_memberships))
    => LET u   == universes["livability"]
           env == [i \in DOMAIN u |-> Envelope(ret.output_memberships, i)]
           positive == {t \in OutputTerms : ret.output_memberships[t] > 0}
       IN  /\ ret.fli_score.num = PolylineMoment6(u, env)
           /\ ret.fli_score.den = 3 * PolylineArea2(u, env)
           /\ \A i \in DOMAIN u :
                env[i] = SetMax({0} \cup
                           {Min2(ret.output_memberships[t],
                                 membership_functions["livability"][t][i]) :
                              t \in positive})

\* The example dwelling is scored: 'good' at 1/4 and 'excellent' at 3/7 make
\* an envelope of two clipped terms.
C25_Witness ==
  /\ IsScore
  /\ call.features = example_dwelling
  /\ ret.output_memberships["good"] * 4 = ONE
  /\ ret.output_memberships["excellent"] * 7 = 3 * ONE
  /\ ret.output_memberships["poor"] = 0
  /\ ret.fli_score.num = PolylineMoment6(universes["livability"],
       [i \in DOMAIN universes["livability"] |->
          Envelope(ret.output_memberships, i)])

\* C25 as stated: when some output level is positive, the score is
\* sum(u_i * env(u_i)) / sum(env(u_i)) over the sampled points u_i = 0..100.
C25_ScoreIsWeightedMeanOfSamples ==
  (IsScore /\ SomeLevelPositive(ret.output_memberships))
    => LET u   == universes["livability"]
           n   == Size(u) - 1
           env == [i \in DOMAIN u |-> Envelope(ret.output_memberships, i)]
           uenv == [i \in DOMAIN u |-> u[i] * env[i]]
       IN  Reduced(ret.fli_score) =
             Reduced([num |-> SumOver(uenv, 0, n), den |-> SumOver(env, 0, n)])


IsDefuzzify == call.op = "_defuzzify_centroid"

\* The output levels that were defuzzified in a scoring or defuzzifying call.
DefuzzifiedLevels ==
  IF IsScore THEN ret.output_memberships ELSE call.output_memberships

\* The sum of the samples of the envelope of the levels.
EnvelopeSum(levels) ==
  LET u == universes["livability"]
  IN  SumOver([i \in DOMAIN u |-> Envelope(levels, i)], 0, Size(u) - 1)

\* C26: the default score 50.0 is returned exactly when all four aggregated
\* output levels are 0; when at least one level is positive the envelope has
\* a positive sum, the score is the centroid and its divisor is not 0.
C26_DefaultExactlyWhenAllZero ==
  (IsScore \/ IsDefuzzify)
    => /\ (ret.fli_score = [num |-> 50, den |-> 1])
            <=> (\A t \in OutputTerms : DefuzzifiedLevels[t] = 0)
       /\ SomeLevelPositive(DefuzzifiedLevels)
            => /\ EnvelopeSum(DefuzzifiedLevels) > 0
               /\ ret.fli_score.den > 0
               /\ ret.fli_score =
                    defuzzify_centroid_no_default(DefuzzifiedLevels)

\* One term at the smallest positive level, the other three at 0: the
\* centroid is taken, not the default.
C26_Witness ==
  /\ IsDefuzzify
  /\ call.output_memberships =
       [t \in OutputTerms |-> IF t = "fair" THEN 1 ELSE 0]
  /\ ret.fli_score.num = 40 * ret.fli_score.den
  /\ ret.fli_score.den > 1


\* C27: a rule is in the activated-rules list of a result if and only if its
\* firing strength is strictly greater than 0.01; a rule whose strength lies
\* in (0, 0.01] is not listed, yet its consequent term's level is at least
\* that strength.
C27_ListedIffAboveThreshold ==
  IsScore =>
    \A i \in DOMAIN rules :
      LET strength100 == Strength100(rules[i], ret.input_fuzzification)
      IN  /\ (rules[i].id \in ListedIds(ret)) <=> (strength100 > ONE)
          /\ (strength100 > 0 /\ strength100 <= ONE)
               => /\ rules[i].id \notin ListedIds(ret)
                  /\ ret.output_memberships[rules[i].consequent] * 100
                       >= strength100

\* Rule 4 fires at 1/120 (quiet 3/7, daylight medium 1/120, sky-view
\* moderate 2/7): it is not listed, and 'good' stands at 1/120, which no
\* listed rule accounts for.
C27_Witness ==
  /\ IsScore
  /\ Strength100(RuleById(4), ret.input_fuzzification) * 120 = 100 * ONE
  /\ 4 \notin ListedIds(ret)
  /\ ret.output_memberships["good"] * 120 = ONE
  /\ \A id \in ListedIds(ret) : RuleById(id).consequent # "good"
  /\ ListedIds(ret) # {}


IsScoreReordered == IsScore /\ "rule_order" \in DOMAIN call

\* C28: the order in which the rules are defined has no effect on inference:
\* scoring a record over the same 15 rules in another order gives the same
\* four output levels, the same score and label and the same set of
\* activated rules (with the same strengths) as over the rules as defined.
C28_RuleOrderIrrelevant ==
  IsScoreReordered =>
    LET defined == compute_single_dwelling(call.features)
    IN  /\ Range(call.rule_order) = DOMAIN rules
        /\ ret.output_memberships = defined.output_memberships
        /\ ret.fli_score = defined.fli_score
        /\ ret.linguistic_label = defined.linguistic_label
        /\ Range(ret.activated_rules) = Range(defined.activated_rules)
        /\ Len(ret.activated_rules) = Len(defined.activated_rules)

\* The example dwelling scored over the rules read backwards: rule 3 is
\* evaluated, and listed, before rule 1.
C28_Witness ==
  /\ IsScoreReordered
  /\ call.features = example_dwelling
  /\ call.rule_order = Backwards(Rotation(0))
  /\ [i \in DOMAIN ret.activated_rules |-> ret.activated_rules[i].rule_id]
       = <<3, 1>>
  /\ ret.linguistic_label = "excellent"



\* C29: in every result of compute_single_dwelling the activated-rules list
\* holds each rule at most once, in ascending rule id; each listed rule's
\* activation is at most the level of its consequent term and at most its
\* weight; and every output term whose level exceeds 0.01 has a listed rule
\* with that consequent whose activation equals the level.
C29_ActivatedRulesList ==
  (IsScore /\ "raised" \notin DOMAIN ret) =>
    LET listed == ret.activated_rules
        levels == ret.output_memberships
    IN  /\ \A i, j \in DOMAIN listed :
             i < j => listed[i].rule_id < listed[j].rule_id
        /\ \A i \in DOMAIN listed :
             /\ listed[i].rule_id \in {r.id : r \in Range(rules)}
             /\ listed[i].activation
                  <= levels[RuleById(listed[i].rule_id).consequent]
             /\ listed[i].activation * 100
                  <= RuleById(listed[i].rule_id).weight * ONE
        /\ \A term \in DOMAIN levels :
             levels[term] * 100 > ONE
               => \E i \in DOMAIN listed :
                    /\ RuleById(listed[i].rule_id).consequent = term
                    /\ listed[i].activation = levels[term]

\* A result that lists three rules or more, one of them below the level of
\* its consequent (a stronger rule concludes the same term) and one of them
\* at its full weight.
C29_Witness ==
  /\ IsScore
  /\ "raised" \notin DOMAIN ret
  /\ Len(ret.activated_rules) >= 3
  /\ \E a \in Range(ret.activated_rules) :
       a.activation < ret.output_memberships[RuleById(a.rule_id).consequent]
  /\ \E a \in Range(ret.activated_rules) :
       a.activation * 100 = RuleById(a.rule_id).weight * ONE



\* C30: the input degrees of a result have an entry for exactly those keys of
\* the feature map that name one of the six input variables; a feature named
\* after the output variable ("livability") is not fuzzified and gets no
\* entry.
C30_OnlyInputVariablesFuzzified ==
  (IsScore /\ "raised" \notin DOMAIN ret) =>
    /\ DOMAIN ret.input_fuzzification = DOMAIN call.features \cap InputVars
    /\ "livability" \notin DOMAIN ret.input_fuzzification

===========================================================================
